---- MODULE Spec2Model ----
(***************************************************************************)
(* A model of rust-1brc: src/main.rs (a producer thread that reads the     *)
(* input line by line and hands batches of lines round-robin to            *)
(* NUM_CONSUMERS worker threads over mpsc channels, the workers'           *)
(* per-station aggregation, and the fold that joins the workers and        *)
(* merges their maps) and src/mmap.rs (the chunk iterator over a mapped    *)
(* region).                                                                *)
(*                                                                         *)
(* f64 values are modelled as exact rationals [n, d] in lowest terms with  *)
(* d > 0, plus the three non-finite values (d = 0): rounding and the sign  *)
(* of zero are not modelled.                                               *)
(***************************************************************************)
EXTENDS Integers, Sequences, FiniteSets, TLC

\* ------------------------------------------------------------------ bounds
\* Longest input file, in lines.
MaxLines == 3
\* Longest line sequence aggregated into one operand map of the merge check.
MaxBatch == 2
\* Longest mapped region of the chunk iterator, in bytes.
MaxRegion == 4
\* Largest consumer count given to MmapChunkIterator::new.
MaxConsumers == 5
\* The log of yielded chunks stops growing here: past the longest partition
\* of a region into non-empty chunks.
MaxYield == MaxRegion + 2
MaxArgs == 2
\* main.rs:158 sets lines_to_buff to 1000; it is scaled down so that short
\* files fill several batches and reach several workers.
lines_to_buff == 2
\* main.rs:139.
NUM_CONSUMERS == 4

\* ------------------------------------------------------------- f64 values
\* The recursive helpers are functions: a function's argument is a value,
\* computed once, also where TLC evaluates ENABLED.
Gcd[a \in Nat, b \in Nat] == IF b = 0 THEN a ELSE Gcd[b, a % b]

Abs(x) == IF x < 0 THEN -x ELSE x

\* n/d with d > 0, in lowest terms.
Norm(n, d) == LET g == Gcd[Abs(n), d] IN [n |-> n \div g, d |-> d \div g]

\* The f64 values.
Fl == [n : Int, d : Nat]
F(n) == [n |-> n, d |-> 1]
NaN == [n |-> 0, d |-> 0]
PInf == [n |-> 1, d |-> 0]
NInf == [n |-> -1, d |-> 0]
IsNaN(x) == x = NaN
Sign(x) == IF x.n > 0 THEN 1 ELSE IF x.n < 0 THEN -1 ELSE 0
InfOf(s) == IF s > 0 THEN PInf ELSE IF s < 0 THEN NInf ELSE NaN

FAdd[a \in Fl, b \in Fl] ==
    IF IsNaN(a) \/ IsNaN(b) THEN NaN
    ELSE IF a.d = 0 /\ b.d = 0 THEN (IF a = b THEN a ELSE NaN)
    ELSE IF a.d = 0 THEN a
    ELSE IF b.d = 0 THEN b
    ELSE Norm(a.n * b.d + b.n * a.d, a.d * b.d)

FSub[a \in Fl, b \in Fl] == FAdd[a, [n |-> -b.n, d |-> b.d]]

FMul[a \in Fl, b \in Fl] ==
    IF IsNaN(a) \/ IsNaN(b) THEN NaN
    ELSE IF a.d = 0 \/ b.d = 0 THEN InfOf(Sign(a) * Sign(b))
    ELSE Norm(a.n * b.n, a.d * b.d)

FDiv[a \in Fl, b \in Fl] ==
    IF IsNaN(a) \/ IsNaN(b) THEN NaN
    ELSE IF a.d = 0 /\ b.d = 0 THEN NaN
    ELSE IF a.d = 0 THEN (IF b.n = 0 THEN a ELSE InfOf(Sign(a) * Sign(b)))
    ELSE IF b.d = 0 THEN F(0)
    ELSE IF b.n = 0 THEN InfOf(Sign(a))
    ELSE IF b.n < 0 THEN Norm(-(a.n * b.d), a.d * (-b.n))
    ELSE Norm(a.n * b.d, a.d * b.n)

\* a < b, for a and b that are not NaN.
FLess[a \in Fl, b \in Fl] ==
    IF a.d = 0 THEN a.n < 0 /\ b # a
    ELSE IF b.d = 0 THEN b.n > 0
    ELSE a.n * b.d < b.n * a.d

\* f64::max and f64::min: when one argument is NaN the other is returned.
FMax[a \in Fl, b \in Fl] == IF IsNaN(a) THEN b ELSE IF IsNaN(b) THEN a ELSE IF FLess[a, b] THEN b ELSE a
FMin[a \in Fl, b \in Fl] == IF IsNaN(a) THEN b ELSE IF IsNaN(b) THEN a ELSE IF FLess[b, a] THEN b ELSE a

\* ---------------------------------------------------------------- strings
\* A string is a sequence of one-character strings.
NL == "\n"
Digits == {"0", "1", "2", "5"}
DigitVal(c) == CASE c = "0" -> 0 [] c = "1" -> 1 [] c = "2" -> 2 [] c = "5" -> 5

\* The first index at or after i where s holds c, 0 when there is none.
IndexFrom[s \in Seq(STRING), c \in STRING, i \in Nat] ==
    IF i > Len(s) THEN 0 ELSE IF s[i] = c THEN i ELSE IndexFrom[s, c, i + 1]

DecVal[s \in Seq(Digits)] ==
    IF s = <<>> THEN 0 ELSE 10 * DecVal[SubSeq(s, 1, Len(s) - 1)] + DigitVal(s[Len(s)])

Pow10[k \in Nat] == IF k = 0 THEN 1 ELSE 10 * Pow10[k - 1]

AllDigits(s) == \A i \in 1..Len(s) : s[i] \in Digits

\* str::parse::<f64>: an optional sign, then "nan" or digits with at most one
\* point and at least one digit. [ok, val]: ok is FALSE for Err.
ParseF64[s \in Seq(STRING)] ==
    LET neg == Len(s) > 0 /\ s[1] = "-"
        body == IF neg THEN Tail(s) ELSE s
        dot == IndexFrom[body, ".", 1]
        ip == IF dot = 0 THEN body ELSE SubSeq(body, 1, dot - 1)
        fp == IF dot = 0 THEN <<>> ELSE SubSeq(body, dot + 1, Len(body))
        mag == Norm(DecVal[ip] * Pow10[Len(fp)] + DecVal[fp], Pow10[Len(fp)])
    IN  IF body = <<"n", "a", "n">> THEN [ok |-> TRUE, val |-> NaN]
        ELSE IF AllDigits(ip) /\ AllDigits(fp) /\ Len(ip) + Len(fp) > 0
             THEN [ok |-> TRUE, val |-> IF neg THEN [n |-> -mag.n, d |-> mag.d] ELSE mag]
        ELSE [ok |-> FALSE, val |-> NaN]

\* ------------------------------------------------------------ StationData
\* StationData::new
New(temp) == [min_temp |-> temp, max_temp |-> temp, mean_temp |-> temp, times_seen |-> temp]

\* StationData::running_avg
running_avg(self, temp) ==
    FDiv[FAdd[FMul[self.mean_temp, FSub[self.times_seen, F(1)]], temp], self.times_seen]

\* Fault injection: an update replaces the entry by one made of the new value.
update_from_reset(self, temp) == New(temp)

\* StationData::update_from
update_from(self, temp) ==
    [max_temp |-> FMax[self.max_temp, temp],
     min_temp |-> FMin[self.min_temp, temp],
     mean_temp |-> running_avg(self, temp),
     times_seen |-> FAdd[self.times_seen, F(1)]]

\* Fault injection: the merge keeps dest's extremes.
update_from_station_keep(self, src) ==
    [max_temp |-> self.max_temp,
     min_temp |-> self.min_temp,
     mean_temp |-> running_avg(self, src.mean_temp),
     times_seen |-> FAdd[self.times_seen, F(1)]]

\* StationData::update_from_station
update_from_station(self, src) ==
    [max_temp |-> FMax[self.max_temp, src.max_temp],
     min_temp |-> FMin[self.min_temp, src.min_temp],
     mean_temp |-> running_avg(self, src.mean_temp),
     times_seen |-> FAdd[self.times_seen, F(1)]]

\* StationData::parse_data: [ok, name, temp]; ok is FALSE where an unwrap panics.
parse_data(raw) ==
    LET semi == IndexFrom[raw, ";", 1]
        p == ParseF64[SubSeq(raw, semi + 1, Len(raw))]
    IN  IF semi = 0 THEN [ok |-> FALSE, name |-> <<>>, temp |-> NaN]
        ELSE [ok |-> p.ok, name |-> SubSeq(raw, 1, semi - 1), temp |-> p.val]

\* StationData::parse_line_buff: str::split_terminator("\n"), the pieces
\* between terminators, without a last empty piece.
parse_line_buff[line_buff \in Seq(STRING)] ==
    LET nl == IndexFrom[line_buff, NL, 1]
    IN  IF line_buff = <<>> THEN <<>>
        ELSE IF nl = 0 THEN <<line_buff>>
        ELSE <<SubSeq(line_buff, 1, nl - 1)>>
             \o parse_line_buff[SubSeq(line_buff, nl + 1, Len(line_buff))]

\* A BTreeMap<String, StationData> is a function from its key set.
EmptyMap == <<>>
Insert(map, k, v) == [x \in DOMAIN map \cup {k} |-> IF x = k THEN v ELSE map[x]]

\* Fault injection: the entries of src whose key dest lacks are not inserted.
merge_btrees_dest_keys(dest, src) ==
    [k \in DOMAIN dest |->
        IF k \in DOMAIN src THEN update_from_station(dest[k], src[k]) ELSE dest[k]]

\* merge_btrees: every entry of src is merged into dest's entry of its key, or
\* inserted when dest has none.
merge_btrees(dest, src) ==
    [k \in DOMAIN dest \cup DOMAIN src |->
        IF k \in DOMAIN src
        THEN (IF k \in DOMAIN dest THEN update_from_station(dest[k], src[k]) ELSE src[k])
        ELSE dest[k]]

\* The worker's match on one parsed line: update the station's entry or
\* insert a new one.
Aggregate(map, name, temp) ==
    IF name \in DOMAIN map
    THEN [map EXCEPT ![name] = update_from(map[name], temp)]
    ELSE Insert(map, name, New(temp))

\* The worker's loop over the lines of one received buffer, from station_map
\* map: [map, panicked], panicked where parse_data panics. (Each step's
\* values are bound by a set, so that they are computed once.)
RECURSIVE ProcessLines(_, _)
ProcessLines(lines, map) ==
    IF lines = <<>> THEN [map |-> map, panicked |-> FALSE]
    ELSE CHOOSE out \in
            { IF ~r.ok THEN [map |-> m, panicked |-> TRUE]
              ELSE ProcessLines(rest, Aggregate(m, r.name, r.temp)) :
                r \in {parse_data(Head(lines))}, rest \in {Tail(lines)}, m \in {map} } : TRUE

\* ------------------------------------------------------------------ state
VARIABLES
    mode,         \* which machine runs: "program", "chunks" or "merge"
    recs,         \* the lines the input file was written from (what is true of it)
    file,         \* the input file's content
    consumers,    \* the number of worker threads and channels of this run
    pos,          \* producer: offset of buf in the file
    state,        \* producer: the round-robin counter
    line_buff,    \* producer: the lines read and not yet sent
    read_lines,   \* producer: calls of read_line so far
    p_pc,         \* producer: "loop", "done" (closure returned) or "panicked"
    queue,        \* per channel, the buffers sent and not yet received
    rx_alive,     \* per channel, whether its Receiver still exists
    w_pc,         \* per worker, "recv", "returned" or "panicked"
    station_map,  \* per worker, its station_map
    m_pc,         \* main: "join", "closure_done", "closure_panicked", "exit_ok", "exit_fail"
    join_idx,     \* main: handlers joined so far by the fold
    acc,          \* main: the fold's accumulator
    stdout,       \* what the process has printed
    taken,        \* per worker, the lines its loop has taken from its buffers
    region,       \* chunk iterator: the bytes mapped from the file
    it_consumers, \* chunk iterator: num_consumers given to new
    chunk_size,   \* chunk iterator: its chunk_size
    off,          \* chunk iterator: offset of data.mmap_slice in the region
    yielded,      \* the chunks next() returned, as <<start, end>> offsets
    it_done,      \* next() has returned None
    released,     \* the munmap calls made, as <<start, end>> offsets in the mapping
    mfile,        \* mapping: the content of the file given to from_file
    map_pc,       \* mapping: "start", "mapped", "panicked" or "dropped"
    view,         \* mapping: the bytes read through deref, <<>> before any read
    args,         \* start of main: the process's arguments, program name first
    fs,           \* start of main: the paths that can be opened
    file_name,    \* start of main: the path main chose
    start_pc,     \* start of main: "args", "open", "opened" or "exit_fail"
    ma, mb, mc,   \* merge check: the operand maps
    merged_out    \* merge check: the merges computed so far

progVars == <<recs, file, consumers, pos, state, line_buff, read_lines, p_pc, queue,
              rx_alive, w_pc, station_map, m_pc, join_idx, acc, stdout, taken>>
chunkVars == <<region, it_consumers, chunk_size, off, yielded, it_done, released>>
mergeVars == <<ma, mb, mc, merged_out>>
mmapVars == <<mfile, map_pc, view>>
startVars == <<args, fs, file_name, start_pc>>
vars == <<mode, progVars, chunkVars, mergeVars, mmapVars, startVars>>

\* ------------------------------------------------------------ input files
\* The lines input files are written from: text, and for a well-formed line
\* the key and the value it records.
LineSet ==
    { [text |-> <<"A", ";", "1", "0", ".", "0">>, wf |-> TRUE, key |-> <<"A">>, val |-> F(10)],
      [text |-> <<"A", ";", "2", "0", ".", "0">>, wf |-> TRUE, key |-> <<"A">>, val |-> F(20)],
      [text |-> <<"B", ";", "-", "5", ".", "0">>, wf |-> TRUE, key |-> <<"B">>, val |-> F(-5)],
      [text |-> <<"A", "1", "0", ".", "0">>, wf |-> FALSE, key |-> <<>>, val |-> NaN],
      [text |-> <<"B", ";", "x">>, wf |-> FALSE, key |-> <<>>, val |-> NaN],
      [text |-> <<"A", ";", "n", "a", "n">>, wf |-> FALSE, key |-> <<>>, val |-> NaN] }

SeqsUpTo(set, n) == UNION {[1..k -> set] : k \in 0..n}

\* The file holding the lines rs, each ended by "\n", the last one only when
\* trailing.
RECURSIVE FileOf(_, _)
FileOf(rs, trailing) ==
    IF rs = <<>> THEN <<>>
    ELSE Head(rs).text
         \o (IF Len(rs) > 1 \/ trailing THEN <<NL>> ELSE <<>>)
         \o FileOf(Tail(rs), trailing)

\* println!: a line of text on standard output.
Println(text) == [kind |-> "text", text |-> text]

\* ---------------------------------------------------------------- idle parts
ProgIdle ==
    /\ recs = <<>> /\ file = <<>> /\ consumers = 0 /\ pos = 0 /\ state = 0
    /\ line_buff = <<>> /\ read_lines = 0 /\ p_pc = "idle" /\ queue = <<>>
    /\ rx_alive = <<>> /\ w_pc = <<>> /\ station_map = <<>> /\ m_pc = "idle"
    /\ join_idx = 0 /\ acc = EmptyMap /\ stdout = <<>> /\ taken = <<>>
ChunkIdle ==
    /\ region = <<>> /\ it_consumers = 0 /\ chunk_size = 0 /\ off = 0
    /\ yielded = <<>> /\ it_done = FALSE /\ released = <<>>
MergeIdle ==
    /\ ma = EmptyMap /\ mb = EmptyMap /\ mc = EmptyMap /\ merged_out = <<>>
MmapIdle ==
    /\ mfile = <<>> /\ map_pc = "idle" /\ view = <<>>
StartIdle ==
    /\ args = <<>> /\ fs = {} /\ file_name = "" /\ start_pc = "idle"

\* ------------------------------------------------------------ the program
\* The worker counts a run is built with: the source's NUM_CONSUMERS, and 1
\* and 8 to compare against.
ConsumerCounts == {1, NUM_CONSUMERS, 8}
MaxWorkers == CHOOSE n \in ConsumerCounts : \A m \in ConsumerCounts : m <= n

\* main up to thread::scope: the file is open, the channels are made,
\* "Reading from" is printed.
Init ==
    /\ mode = "program"
    /\ recs \in SeqsUpTo(LineSet, MaxLines)
    /\ \E trailing \in BOOLEAN :
         /\ (recs = <<>> => trailing)
         /\ file = FileOf(recs, trailing)
    /\ consumers \in ConsumerCounts
    /\ pos = 0 /\ state = 0 /\ line_buff = <<>> /\ read_lines = 0 /\ p_pc = "loop"
    /\ queue = [c \in 1..consumers |-> <<>>]
    /\ rx_alive = [c \in 1..consumers |-> TRUE]
    /\ w_pc = [c \in 1..consumers |-> "recv"]
    /\ station_map = [c \in 1..consumers |-> EmptyMap]
    /\ m_pc = "join" /\ join_idx = 0 /\ acc = EmptyMap
    /\ stdout = <<Println("Reading from")>>
    /\ taken = [c \in 1..consumers |-> <<>>]
    /\ ChunkIdle /\ MergeIdle /\ MmapIdle /\ StartIdle

\* BufRead::read_line at offset p: the bytes up to and including the next
\* "\n", or up to the end of the file.
ReadLineLen(p) ==
    LET nl == IndexFrom[file, NL, p + 1]
    IN  IF nl = 0 THEN Len(file) - p ELSE nl - p

\* get_round_robin: the channel picked (1-based) for a counter value.
get_round_robin(st) == (st % consumers) + 1

\* Fault injection: the senders outlive the producer's closure.
SendersKept == FALSE

\* Every Sender is owned by the producer's closure and dropped when it ends.
SendersDropped == p_pc # "loop"

\* Fault injection: the buffer is sent after a line that fills a batch, and
\* not at the end of the file.
ShouldSendFullOnly(n, bytes_read) == n % lines_to_buff = 0 /\ bytes_read # 0

\* Whether the producer sends the buffer after the n-th read_line.
ShouldSend(n, bytes_read) == (n % lines_to_buff = 0) \/ bytes_read = 0

\* One iteration of the producer's loop.
ProducerStep ==
    /\ mode = "program" /\ p_pc = "loop"
    /\ LET bytes_read == ReadLineLen(pos)
           buff == line_buff \o SubSeq(file, pos + 1, pos + bytes_read)
           n == read_lines + 1
           sends == ShouldSend(n, bytes_read)
           tx == get_round_robin(state)
       IN  /\ pos' = pos + bytes_read
           /\ read_lines' = n
           /\ IF sends
              THEN /\ state' = state + 1
                   /\ IF rx_alive[tx]
                      THEN /\ queue' = [queue EXCEPT ![tx] = Append(@, buff)]
                           /\ line_buff' = <<>>
                           /\ p_pc' = IF bytes_read = 0 THEN "done" ELSE "loop"
                      ELSE \* send returns Err and the unwrap panics
                           /\ queue' = queue
                           /\ line_buff' = buff
                           /\ p_pc' = "panicked"
              ELSE /\ state' = state
                   /\ queue' = queue
                   /\ line_buff' = buff
                   /\ p_pc' = IF bytes_read = 0 THEN "done" ELSE "loop"
    /\ UNCHANGED <<mode, recs, file, consumers, rx_alive, w_pc, station_map, m_pc,
                   join_idx, acc, stdout, taken, chunkVars, mergeVars, mmapVars, startVars>>

\* The lines the loop over a buffer's lines takes before it ends: all of
\* them, or those up to and including the first one parse_data panics on.
TakenFrom(lines) ==
    CHOOSE out \in
        { IF bad = {} THEN ls
          ELSE SubSeq(ls, 1, CHOOSE i \in bad : \A j \in bad : i <= j) :
            ls \in {lines}, bad \in {{i \in DOMAIN lines : ~parse_data(lines[i]).ok}} } : TRUE

\* One iteration of worker c's loop: recv, then the lines of the buffer; recv
\* returns Err once the queue is empty and the senders are dropped.
Worker(c) ==
    /\ mode = "program" /\ c \in 1..consumers /\ w_pc[c] = "recv"
    /\ IF queue[c] # <<>>
       THEN \E lines \in {parse_line_buff[Head(queue[c])]} :
            \E r \in {ProcessLines(lines, station_map[c])} :
                /\ taken' = [taken EXCEPT ![c] = @ \o TakenFrom(lines)]
                /\ IF r.panicked
                   THEN /\ w_pc' = [w_pc EXCEPT ![c] = "panicked"]
                        /\ rx_alive' = [rx_alive EXCEPT ![c] = FALSE]
                        /\ queue' = [queue EXCEPT ![c] = <<>>]
                        /\ station_map' = [station_map EXCEPT ![c] = EmptyMap]
                   ELSE /\ station_map' = [station_map EXCEPT ![c] = r.map]
                        /\ queue' = [queue EXCEPT ![c] = Tail(@)]
                        /\ UNCHANGED <<w_pc, rx_alive>>
       ELSE /\ SendersDropped
            /\ w_pc' = [w_pc EXCEPT ![c] = "returned"]
            /\ rx_alive' = [rx_alive EXCEPT ![c] = FALSE]
            /\ UNCHANGED <<queue, station_map, taken>>
    /\ UNCHANGED <<mode, recs, file, consumers, pos, state, line_buff, read_lines, p_pc,
                   m_pc, join_idx, acc, stdout, chunkVars, mergeVars, mmapVars, startVars>>

\* The handler the fold joins next: handlers are pushed in spawn order and
\* each took its Receiver with rx_channels.pop(), the last channel first.
HandlerChannel(h) == consumers - h

\* Fault injection: join returns without waiting for the thread.
JoinReturnsAtOnce(c) == TRUE

\* join on worker c's handle returns once the thread has finished.
JoinReturns(c) == w_pc[c] # "recv"

\* One step of the fold over the handlers: join, then merge_btrees; join's
\* unwrap panics when the worker panicked.
MainJoin ==
    /\ mode = "program" /\ m_pc = "join"
    /\ LET c == HandlerChannel(join_idx)
       IN  /\ JoinReturns(c)
           /\ IF w_pc[c] # "panicked"
              THEN /\ acc' = merge_btrees(acc, station_map[c])
                   /\ join_idx' = join_idx + 1
                   /\ m_pc' = IF join_idx + 1 = consumers THEN "closure_done" ELSE "join"
              ELSE /\ m_pc' = "closure_panicked"
                   /\ UNCHANGED <<acc, join_idx>>
    /\ UNCHANGED <<mode, recs, file, consumers, pos, state, line_buff, read_lines, p_pc,
                   queue, rx_alive, w_pc, station_map, stdout, taken, chunkVars, mergeVars,
                   mmapVars, startVars>>

ThreadsFinished == p_pc # "loop" /\ \A c \in 1..consumers : w_pc[c] # "recv"
AThreadPanicked == p_pc = "panicked" \/ \E c \in 1..consumers : w_pc[c] = "panicked"

\* thread::scope returns once every spawned thread has finished, and panics
\* when its closure or a thread panicked; main then prints and returns Ok.
ScopeExit ==
    /\ mode = "program" /\ m_pc \in {"closure_done", "closure_panicked"}
    /\ ThreadsFinished
    /\ IF m_pc = "closure_panicked" \/ AThreadPanicked
       THEN m_pc' = "exit_fail" /\ stdout' = stdout
       ELSE m_pc' = "exit_ok" /\ stdout' = Append(stdout, Println("finished reading"))
    /\ UNCHANGED <<mode, recs, file, consumers, pos, state, line_buff, read_lines, p_pc,
                   queue, rx_alive, w_pc, station_map, join_idx, acc, taken, chunkVars,
                   mergeVars, mmapVars, startVars>>

Next ==
    \/ ProducerStep
    \/ \E c \in 1..MaxWorkers : Worker(c)
    \/ MainJoin
    \/ ScopeExit

Spec == Init /\ [][Next]_vars

\* The scheduler runs some thread that can take a step: a run does not halt
\* while the producer, a worker or main is able to go on.
FairInit == Init /\ consumers <= NUM_CONSUMERS
FairSpec == FairInit /\ [][Next]_vars /\ WF_vars(Next)

\* ------------------------------------------------------ the chunk iterator
\* MmapChunkIterator::new(data, num_consumers) over a region of bytes, of
\* which only being "\n" or not matters.
InitChunks ==
    /\ mode = "chunks"
    /\ region \in SeqsUpTo({"a", NL}, MaxRegion)
    /\ it_consumers \in 1..MaxConsumers
    /\ chunk_size = Len(region) \div it_consumers
    /\ off = 0 /\ yielded = <<>> /\ it_done = FALSE /\ released = <<>>
    /\ ProgIdle /\ MergeIdle /\ MmapIdle /\ StartIdle

\* The last index in 1..i where s holds c, 0 when there is none (rposition).
RECURSIVE LastIndexUpTo(_, _, _)
LastIndexUpTo(s, c, i) ==
    IF i = 0 THEN 0 ELSE IF s[i] = c THEN i ELSE LastIndexUpTo(s, c, i - 1)

Min2(a, b) == IF a < b THEN a ELSE b

\* Where next() splits data: after the last "\n" of its first chunk_size
\* bytes, or after those bytes when they hold none.
SplitAt(data, size) ==
    LET chunk_end == Min2(size, Len(data))
        nl == LastIndexUpTo(data, NL, chunk_end)
    IN  IF nl # 0 THEN nl ELSE chunk_end

\* MmapChunkIterator::next, called by a loop that logs each Some(chunk) and
\* stops at None. With chunk_size = 0 the call returns the empty chunk and
\* leaves data as it was; once the log is full such a call changes nothing.
IterNext ==
    /\ mode = "chunks" /\ ~it_done /\ released = <<>>
    /\ LET data == SubSeq(region, off + 1, Len(region))
           split_at == SplitAt(data, chunk_size)
       IN  IF data = <<>>
           THEN it_done' = TRUE /\ UNCHANGED <<off, yielded>>
           ELSE /\ off' = off + split_at
                /\ yielded' = IF Len(yielded) < MaxYield
                              THEN Append(yielded, <<off, off + split_at>>)
                              ELSE yielded
                /\ it_done' = FALSE
    /\ UNCHANGED <<mode, region, it_consumers, chunk_size, released, progVars, mergeVars,
                   mmapVars, startVars>>

\* The range Drop for Mmap hands to munmap: from the start of mmap_slice as
\* it is when the value is dropped, for its length.
DropRange == <<off, Len(region)>>

\* The iterator goes out of scope, after any number of calls of next(): its
\* field data, the Mmap, is dropped with it.
IterDrop ==
    /\ mode = "chunks" /\ released = <<>>
    /\ released' = Append(released, DropRange)
    /\ UNCHANGED <<mode, region, it_consumers, chunk_size, off, yielded, it_done,
                   progVars, mergeVars, mmapVars, startVars>>

ChunkNext == IterNext \/ IterDrop

ChunkSpec == InitChunks /\ [][ChunkNext]_vars

\* A for loop over the iterator: it keeps calling next() until None, and
\* the iterator is dropped after the loop.
FairChunkNext == IterNext \/ (it_done /\ IterDrop)
FairChunkSpec == InitChunks /\ [][FairChunkNext]_vars /\ WF_vars(IterNext)

\* ------------------------------------------------------------- the mapping
\* The bytes files are made of: only being "\n", and being equal, matter.
Bytes == {"a", "b", NL}

InitMmap ==
    /\ mode = "mmap"
    /\ mfile \in SeqsUpTo(Bytes, MaxRegion)
    /\ map_pc = "start" /\ view = <<>>
    /\ ProgIdle /\ ChunkIdle /\ MergeIdle /\ StartIdle

\* Mmap::from_file: mmap of size bytes of the file from offset 0, size being
\* the file's length. mmap fails with EINVAL for a length of 0, and
\* from_file panics when mmap failed.
FromFile ==
    /\ mode = "mmap" /\ map_pc = "start"
    /\ LET size == Len(mfile)
       IN  IF size = 0
           THEN map_pc' = "panicked" /\ region' = region
           ELSE map_pc' = "mapped" /\ region' = SubSeq(mfile, 1, size)
    /\ UNCHANGED <<mode, mfile, view, it_consumers, chunk_size, off, yielded, it_done,
                   released, progVars, mergeVars, startVars>>

\* Deref for Mmap: a read of the region through &*mmap.
MmapDeref ==
    /\ mode = "mmap" /\ map_pc = "mapped" /\ view = <<>>
    /\ view' = region
    /\ UNCHANGED <<mode, mfile, map_pc, chunkVars, progVars, mergeVars, startVars>>

\* The Mmap goes out of scope.
MmapDrop ==
    /\ mode = "mmap" /\ map_pc = "mapped"
    /\ released' = Append(released, DropRange)
    /\ map_pc' = "dropped"
    /\ UNCHANGED <<mode, mfile, view, region, it_consumers, chunk_size, off, yielded,
                   it_done, progVars, mergeVars, startVars>>

MmapNext == FromFile \/ MmapDeref \/ MmapDrop

MmapSpec == InitMmap /\ [][MmapNext]_vars

\* ---------------------------------------------------------- start of main
\* The paths arguments name, and the path main falls back on.
ArgPaths == {"a.txt", "b.txt"}
DefaultPath == "sample.txt"

PrintlnArg(text, a) == [kind |-> "text", text |-> text, arg |-> a]

\* The process starts: env::args() holds the program's name and up to
\* MaxArgs arguments after it; fs is the set of paths File::open can open.
InitStart ==
    /\ mode = "start"
    /\ args \in {<<"brc">> \o a : a \in SeqsUpTo(ArgPaths, MaxArgs)}
    /\ fs \in SUBSET (ArgPaths \cup {DefaultPath})
    /\ file_name = "" /\ start_pc = "args"
    /\ ProgIdle /\ ChunkIdle /\ MergeIdle /\ MmapIdle

\* Vec::get(i): the element at 0-based index i, if there is one.
VecGet(v, i) == IF i + 1 \in DOMAIN v THEN [some |-> TRUE, val |-> v[i + 1]]
                ELSE [some |-> FALSE, val |-> ""]

\* main picks file_name from args.get(2), or the default, and prints it.
ChooseFile ==
    /\ mode = "start" /\ start_pc = "args"
    /\ LET fname == VecGet(args, 2)
       IN  file_name' = IF fname.some THEN fname.val ELSE DefaultPath
    /\ stdout' = Append(stdout, PrintlnArg("Reading from", file_name'))
    /\ start_pc' = "open"
    /\ UNCHANGED <<mode, args, fs, recs, file, consumers, pos, state, line_buff,
                   read_lines, p_pc, queue, rx_alive, w_pc, station_map, m_pc, join_idx,
                   acc, taken, chunkVars, mergeVars, mmapVars>>

\* File::open(file_name)?: main returns the error when the open fails.
OpenFile ==
    /\ mode = "start" /\ start_pc = "open"
    /\ start_pc' = IF file_name \in fs THEN "opened" ELSE "exit_fail"
    /\ UNCHANGED <<mode, args, fs, file_name, progVars, chunkVars, mergeVars, mmapVars>>

StartNext == ChooseFile \/ OpenFile

StartSpec == InitStart /\ [][StartNext]_vars

\* ------------------------------------------------------------ merge algebra
WfTexts == {l.text : l \in {x \in LineSet : x.wf}}

\* The maps a worker returns from up to MaxBatch well-formed lines.
MapSet == {ProcessLines(ls, EmptyMap).map : ls \in SeqsUpTo(WfTexts, MaxBatch)}

InitMerge ==
    /\ mode = "merge"
    /\ ma \in MapSet /\ mb \in MapSet /\ mc \in MapSet
    /\ merged_out = <<>>
    /\ ProgIdle /\ ChunkIdle /\ MmapIdle /\ StartIdle

Put(f, k, v) == [x \in DOMAIN f \cup {k} |-> IF x = k THEN v ELSE f[x]]

\* merge_btrees(merge_btrees(a, b), c)
MergeLeft ==
    /\ mode = "merge" /\ "ab_c" \notin DOMAIN merged_out
    /\ merged_out' = Put(Put(merged_out, "ab", merge_btrees(ma, mb)),
                         "ab_c", merge_btrees(merge_btrees(ma, mb), mc))
    /\ UNCHANGED <<mode, ma, mb, mc, progVars, chunkVars, mmapVars, startVars>>

\* merge_btrees(a, merge_btrees(b, c))
MergeRight ==
    /\ mode = "merge" /\ "a_bc" \notin DOMAIN merged_out
    /\ merged_out' = Put(merged_out, "a_bc", merge_btrees(ma, merge_btrees(mb, mc)))
    /\ UNCHANGED <<mode, ma, mb, mc, progVars, chunkVars, mmapVars, startVars>>

\* merge_btrees(b, a)
MergeSwapped ==
    /\ mode = "merge" /\ "ba" \notin DOMAIN merged_out
    /\ merged_out' = Put(merged_out, "ba", merge_btrees(mb, ma))
    /\ UNCHANGED <<mode, ma, mb, mc, progVars, chunkVars, mmapVars, startVars>>

MergeNext == MergeLeft \/ MergeRight \/ MergeSwapped

MergeSpec == InitMerge /\ [][MergeNext]_vars

\* ------------------------------------------------- what is true of the file
WellFormed == \A i \in DOMAIN recs : recs[i].wf
TrueKeys == {recs[i].key : i \in {j \in DOMAIN recs : recs[j].wf}}
IndicesOf(k) == {i \in DOMAIN recs : recs[i].wf /\ recs[i].key = k}
ValuesOf(k) == {recs[i].val : i \in IndicesOf(k)}
TrueMin(k) == CHOOSE v \in ValuesOf(k) : \A u \in ValuesOf(k) : ~FLess[u, v]
TrueMax(k) == CHOOSE v \in ValuesOf(k) : \A u \in ValuesOf(k) : ~FLess[v, u]
RECURSIVE SumOver(_)
SumOver(is) ==
    IF is = {} THEN F(0)
    ELSE LET i == CHOOSE j \in is : TRUE IN FAdd[recs[i].val, SumOver(is \ {i})]
TrueMean(k) == FDiv[SumOver(IndicesOf(k)), F(Cardinality(IndicesOf(k)))]

\* The fold has returned the merged map (acc), the run has not failed.
Merged == mode = "program" /\ m_pc \in {"closure_done", "exit_ok"}
Exited == mode = "program" /\ m_pc \in {"exit_ok", "exit_fail"}

\* ----------------------------------------------------------------- claims
\* C1: for a well-formed file, whatever the interleaving, the final merged
\* map holds for each key of the file the true minimum and the true maximum
\* of the key's values.
C1_MinMax ==
    (Merged /\ WellFormed) =>
        \A k \in TrueKeys :
            /\ k \in DOMAIN acc
            /\ acc[k].min_temp = TrueMin(k)
            /\ acc[k].max_temp = TrueMax(k)

\* C1's case: a key whose values differ reached two workers, and the merged
\* map is final.
C1_Witness ==
    /\ Merged /\ WellFormed /\ consumers = NUM_CONSUMERS
    /\ \E k \in TrueKeys :
         /\ k \in DOMAIN station_map[1] /\ k \in DOMAIN station_map[2]
         /\ station_map[1][k].max_temp # station_map[2][k].max_temp
         /\ TrueMin(k) # TrueMax(k)

\* C2: for a well-formed file, the mean held for each key in the final merged
\* map is the arithmetic mean of the key's values in the file.
C2_Mean ==
    (Merged /\ WellFormed) =>
        \A k \in TrueKeys : k \in DOMAIN acc /\ acc[k].mean_temp = TrueMean(k)

\* The report of a map: its keys with min, mean and max (the claims below
\* need only whether such a line was printed).
ReportOf(map) ==
    [kind |-> "report",
     text |-> "",
     entries |-> {<<k, map[k].min_temp, map[k].mean_temp, map[k].max_temp>> : k \in DOMAIN map}]
IsReport(line) == line.kind = "report"

\* C3: a run over a well-formed input that completes has written the report
\* of the merged map to standard output exactly once.
C3_ReportOnce ==
    (mode = "program" /\ m_pc = "exit_ok" /\ WellFormed) =>
        Cardinality({i \in DOMAIN stdout : stdout[i] = ReportOf(acc)}) = 1

\* What one worker alone makes of the file: every buffer goes to it, in
\* order, and the fold merges its map into the empty one.
OneWorkerStats ==
    merge_btrees(EmptyMap, ProcessLines(parse_line_buff[file], EmptyMap).map)

\* C4: the final statistics of a file do not depend on the number of
\* workers: the merged result of a run with any worker count is the result
\* of the run with one worker.
C4_WorkerCountInvariance ==
    (Merged /\ WellFormed) => acc = OneWorkerStats

\* C6: when a line of the input is malformed, a run that has ended has ended
\* in failure, and no report was written.
C6_MalformedFails ==
    (Exited /\ ~WellFormed) =>
        /\ m_pc = "exit_fail"
        /\ \A i \in DOMAIN stdout : ~IsReport(stdout[i])

Terminated == Exited /\ ThreadsFinished

\* C7: under fair scheduling every run terminates: the producer, every
\* worker and main all finish, whether the run completes or aborts.
C7_Terminates == <>Terminated

\* C7's case: a worker aborted on a bad line, the producer aborted on its
\* send to that worker, and the run has ended.
C7_Witness ==
    /\ Terminated /\ m_pc = "exit_fail" /\ p_pc = "panicked"
    /\ \E c \in 1..consumers : w_pc[c] = "panicked"

\* C5: merge_btrees is associative and commutative on the statistics of every
\* key: merging (a with b) with c gives what merging a with (b with c) gives,
\* and merging a with b gives what merging b with a gives.
C5_AssocComm ==
    (mode = "merge" /\ DOMAIN merged_out = {"ab", "ab_c", "a_bc", "ba"}) =>
        /\ merged_out["ab_c"] = merged_out["a_bc"]
        /\ merged_out["ab"] = merged_out["ba"]

\* The chunks yielded so far start at s, each where the one before ended.
RECURSIVE ContiguousFrom(_, _)
ContiguousFrom(cs, s) ==
    cs = <<>> \/ (Head(cs)[1] = s /\ Head(cs)[1] <= Head(cs)[2] /\ ContiguousFrom(Tail(cs), Head(cs)[2]))
EndOf(cs) == IF cs = <<>> THEN 0 ELSE cs[Len(cs)][2]

\* C8: the chunks the iteration yields are contiguous from offset 0 and end
\* at the length of the region: the iteration comes to its end having yielded
\* such chunks.
C8_ChunksPartition ==
    <>(it_done /\ ContiguousFrom(yielded, 0) /\ EndOf(yielded) = Len(region))

\* C9: every yielded chunk ends right after a line terminator or at the end
\* of the region, so that no line is split (nor does a chunk that ends at
\* offset 0 split one).
C9_LineAligned ==
    mode = "chunks" =>
        \A i \in DOMAIN yielded :
            LET e == yielded[i][2]
            IN  e = Len(region) \/ e = 0 \/ region[e] = NL

\* C10: over a (non-empty) region, the iteration yields exactly num_consumers
\* chunks.
C10_ExactlyN ==
    (mode = "chunks" /\ it_done /\ region # <<>>) => Len(yielded) = it_consumers

\* C11: the region mapped from the file is released at most once, and the
\* release covers the whole mapped range, offsets 0 to the region's length,
\* whatever number of chunks the iterator gave before it was dropped.
C11_ReleaseWholeOnce ==
    mode = "chunks" =>
        /\ Len(released) <= 1
        /\ \A i \in DOMAIN released : released[i] = <<0, Len(region)>>

\* C12: for every file, from_file returns (it does not panic) a region whose
\* bytes read through deref are the file's bytes, as many as the file has.
C12_RegionIsFile ==
    (mode = "mmap" /\ map_pc # "start") =>
        /\ map_pc # "panicked"
        /\ region = mfile /\ Len(region) = Len(mfile)
        /\ (view # <<>> => view = mfile)

\* C13: with exactly one argument after the program's name, that argument is
\* the path main opens; the default path is used only with no argument.
C13_ArgIsPath ==
    (mode = "start" /\ start_pc # "args") =>
        /\ Len(args) = 2 => file_name = args[2]
        /\ Len(args) = 1 => file_name = DefaultPath
        /\ file_name = DefaultPath => Len(args) = 1

\* The record of LineSet a line of text was written from.
RecOf(text) == CHOOSE l \in LineSet : l.text = text

\* How many of the lines worker c has taken hold key k.
TakenWithKey(c, k) == Cardinality({i \in DOMAIN taken[c] : RecOf(taken[c][i]).key = k})

\* C14: in each worker's map the count held for a key is the number of
\* records with that key the worker has processed: 1 after the first, one
\* more after each later one.
C14_WorkerCount ==
    (mode = "program" /\ WellFormed) =>
        \A c \in 1..consumers : \A k \in DOMAIN station_map[c] :
            station_map[c][k].times_seen = F(TakenWithKey(c, k))

\* The count-weighted mean of two entries.
WeightedMean(d, s) ==
    FDiv[FAdd[FMul[d.mean_temp, d.times_seen], FMul[s.mean_temp, s.times_seen]],
         FAdd[d.times_seen, s.times_seen]]

\* C15: for a key held by both maps, merge_btrees(dest, src) holds the
\* smaller min, the larger max, the sum of the two counts, and the mean
\* weighted by the counts (the sum of the two sums over the sum of the counts).
C15_MergeCombines ==
    (mode = "merge" /\ "ab" \in DOMAIN merged_out) =>
        \A k \in DOMAIN ma \cap DOMAIN mb :
            LET e == merged_out["ab"][k]
            IN  /\ e.min_temp = FMin[ma[k].min_temp, mb[k].min_temp]
                /\ e.max_temp = FMax[ma[k].max_temp, mb[k].max_temp]
                /\ e.times_seen = FAdd[ma[k].times_seen, mb[k].times_seen]
                /\ e.mean_temp = WeightedMean(ma[k], mb[k])

\* C16: the keys of merge_btrees(dest, src) are the keys of dest and the
\* keys of src; a key of src alone holds src's entry, a key of dest alone
\* holds dest's entry, both unchanged.
C16_MergeFrame ==
    (mode = "merge" /\ "ab" \in DOMAIN merged_out) =>
        LET out == merged_out["ab"]
        IN  /\ DOMAIN out = DOMAIN ma \cup DOMAIN mb
            /\ \A k \in DOMAIN mb \ DOMAIN ma : out[k] = mb[k]
            /\ \A k \in DOMAIN ma \ DOMAIN mb : out[k] = ma[k]

\* C16's case: a merge was computed of a dest and a src that each hold a key
\* the other does not.
C16_Witness ==
    /\ mode = "merge" /\ "ab" \in DOMAIN merged_out
    /\ DOMAIN ma \ DOMAIN mb # {}
    /\ DOMAIN mb \ DOMAIN ma # {}

\* How many times a line of text occurs in a sequence of lines.
CountIn(t, lines) == Cardinality({i \in DOMAIN lines : lines[i] = t})
FileTexts == [i \in DOMAIN recs |-> recs[i].text]
RECURSIVE SumTaken(_, _)
SumTaken(t, c) == IF c = 0 THEN 0 ELSE CountIn(t, taken[c]) + SumTaken(t, c - 1)
TakenTexts == UNION {{taken[c][i] : i \in DOMAIN taken[c]} : c \in 1..consumers}

\* C17: no line reaches the workers more often than the file holds it, no
\* worker takes a line the file does not hold (a part of a line, or two
\* joined), and once every thread has finished without a panic each line of
\* the file was taken exactly as often as the file holds it.
C17_ExactlyOnce ==
    mode = "program" =>
        \A t \in TakenTexts \cup {recs[i].text : i \in DOMAIN recs} :
            /\ SumTaken(t, consumers) <= CountIn(t, FileTexts)
            /\ (ThreadsFinished /\ ~AThreadPanicked) =>
                   SumTaken(t, consumers) = CountIn(t, FileTexts)

\* C17's case: a file of exactly one full batch of lines whose last line has
\* no terminator was read to its end by a run with several workers.
C17_Witness ==
    /\ mode = "program" /\ ThreadsFinished /\ ~AThreadPanicked
    /\ consumers = NUM_CONSUMERS
    /\ Len(recs) = lines_to_buff
    /\ file[Len(file)] # NL

\* C18 as stated: no merge starts before every worker has finished.
C18_Barrier ==
    (mode = "program" /\ join_idx >= 1) => \A c \in 1..consumers : w_pc[c] # "recv"

\* C18, amended: a worker's map is merged only after that worker has
\* finished; the workers joined later may still be running.
C18_JoinBeforeMerge ==
    mode = "program" =>
        \A h \in 0..(join_idx - 1) : w_pc[HandlerChannel(h)] = "returned"

\* C18's case: the first worker's map was merged while another worker had
\* not finished.
C18_Witness ==
    /\ mode = "program" /\ join_idx >= 1
    /\ \E c \in 1..consumers : w_pc[c] = "recv"

\* a > b as f64 compares: false when either is NaN.
FGt(a, b) == ~IsNaN(a) /\ ~IsNaN(b) /\ FLess[b, a]

\* Every key of old is a key of new, with min not above, max not below and
\* count not below what old holds.
MapMonotone(old, new) ==
    \A k \in DOMAIN old :
        /\ k \in DOMAIN new
        /\ ~FGt(new[k].min_temp, old[k].min_temp)
        /\ ~FGt(old[k].max_temp, new[k].max_temp)
        /\ ~FGt(old[k].times_seen, new[k].times_seen)

\* C19: in every step, for every key of a running worker's map and of the
\* merged map, the key stays, its min does not increase, its max does not
\* decrease and its count does not decrease.
C19_Monotone ==
    [][mode = "program" =>
          /\ \A c \in 1..consumers :
                 w_pc'[c] # "panicked" => MapMonotone(station_map[c], station_map'[c])
          /\ MapMonotone(acc, acc')]_vars

\* C19's case: a worker has updated an entry it held, and the fold has
\* merged an entry into one it held.
C19_Witness ==
    /\ mode = "program" /\ m_pc = "closure_done"
    /\ \E c \in 1..consumers : \E k \in DOMAIN station_map[c] :
           station_map[c][k].min_temp # station_map[c][k].max_temp
    /\ \E c1, c2 \in 1..consumers :
           c1 # c2 /\ DOMAIN station_map[c1] \cap DOMAIN station_map[c2] # {}

\* C20: every chunk next() returns from a non-empty region is non-empty.
C20_ChunksNonEmpty ==
    (mode = "chunks" /\ region # <<>>) =>
        \A i \in DOMAIN yielded : yielded[i][1] < yielded[i][2]

====
